---- MODULE Spec2Model ----
(***************************************************************************)
(* Model of src/pyNNUE/nnue.py: the position encoder (piece_index,         *)
(* fen_to_onehot) and the NNUE inference class (quantize, the incremental  *)
(* accumulator update, first_forward, forward).                            *)
(*                                                                         *)
(* Numbers.  The network computes on reals.  Every real x the network      *)
(* holds (a parameter, a feature, an accumulator entry) is represented by  *)
(* the integer x * Den, so the model's arithmetic is exact: float rounding *)
(* of numpy/torch is not modelled.  A returned score is an exact fraction  *)
(* w + n/d, kept as a mixed number in lowest terms.                        *)
(*                                                                         *)
(* Sizes.  The network of the source is 256 x 789.  The model keeps the    *)
(* code of every method and runs it on a HIDDEN_SIZE x NET_INPUT_SIZE      *)
(* network; the encoder is modelled at its true width INPUT_SIZE = 789.    *)
(***************************************************************************)
EXTENDS Integers, Sequences, FiniteSets, TLC

VARIABLES self, ret, hist, stack, position, onehot

vars == <<self, ret, hist, stack, position, onehot>>

(***************************************************************************)
(* Bounds of the model                                                     *)
(***************************************************************************)
\* hidden width of the modelled network (256 in the source)
HIDDEN_SIZE == 2
\* input width of the modelled network (789 in the source)
NET_INPUT_SIZE == 2
\* resolution of the unquantized reals: np.random.random() yields k/Den
Den == 2
\* seeds of the generator behind np.random.random: 0..MaxSeed
MaxSeed == 2
\* number of method calls on one NNUE object
MaxCalls == 3

(***************************************************************************)
(* Program constants                                                       *)
(***************************************************************************)
INPUT_SIZE == 2*6*64 + 4 + 16 + 1
QA == 255
QB == 64

Hidden == 0 .. (HIDDEN_SIZE - 1)
NetInput == 0 .. (NET_INPUT_SIZE - 1)
TrueAcc == 0 .. (2 * HIDDEN_SIZE - 1)

\* the integer x as a represented real
FP(x) == x * Den

(***************************************************************************)
(* Exact fractions, for the returned scores                                *)
(***************************************************************************)
RECURSIVE Gcd(_, _)
Gcd(a, b) == IF b = 0 THEN a ELSE Gcd(b, a % b)

\* the fraction w + n/d as a mixed number: w an integer, 0 <= n < d, n/d in
\* lowest terms; equal reals have equal records
Mixed(w, n, d) ==
    LET g == Gcd(n, d)
    IN  [w |-> w, n |-> n \div g, d |-> d \div g]

\* the real num/den, den > 0
Frac(num, den) == Mixed(num \div den, num % den, den)

\* python's  r / k  and  r * k  on an exact fraction r and an integer k > 0
FracDiv(r, k) == Mixed(r.w \div k, (r.w % k) * r.d + r.n, r.d * k)
FracMul(r, k) == Mixed(r.w * k + ((r.n * k) \div r.d), (r.n * k) % r.d, r.d)

\* the "no value" of a call that returns None or raises
NoValue == [w |-> 0, n |-> 0, d |-> 0]

\* np.rint(n / d), d > 0: round to nearest, ties to the even integer
Rint(n, d) ==
    LET q == n \div d
        r == n % d
    IN  IF 2 * r < d THEN q
        ELSE IF 2 * r > d THEN q + 1
        ELSE IF q % 2 = 0 THEN q ELSE q + 1

\* sum of f[i] over the finite set S of integers
RECURSIVE SumOver(_, _)
SumOver(S, f) ==
    IF S = {} THEN 0
    ELSE LET i == CHOOSE j \in S : TRUE IN f[i] + SumOver(S \ {i}, f)

(***************************************************************************)
(* np.random.random: the n-th draw of a generator started from seed, a     *)
(* real in [0, 1) held at resolution 1/Den                                 *)
(***************************************************************************)
RECURSIVE Lcg(_, _)
Lcg(x, n) == IF n = 0 THEN x ELSE Lcg((5 * x + 3) % 16, n - 1)

random(seed, n) == (Lcg(seed, n + 1) * Den) \div 16

(***************************************************************************)
(* class NNUE                                                              *)
(***************************************************************************)
\* NNUE.__init__: every array is filled by successive draws
NNUE_init(seed) ==
    LET o1 == HIDDEN_SIZE * NET_INPUT_SIZE
        o2 == o1 + HIDDEN_SIZE
        o3 == o2 + 2 * HIDDEN_SIZE
        o4 == o3 + NET_INPUT_SIZE
        o5 == o4 + NET_INPUT_SIZE
    IN  [ params |->
            [ acc_weights |-> [i \in Hidden |-> [k \in NetInput |->
                                   random(seed, i * NET_INPUT_SIZE + k)]],
              acc_biases |-> [i \in Hidden |-> random(seed, o1 + i)],
              output_weights |-> [j \in TrueAcc |-> random(seed, o2 + j)],
              output_bias |-> FP(0) ],
          QA |-> 1,
          QB |-> 1,
          values |->
            [ prev_input |-> [k \in NetInput |-> random(seed, o3 + k)],
              input |-> [k \in NetInput |-> random(seed, o4 + k)],
              acc |-> [i \in Hidden |-> random(seed, o5 + i)] ],
          quantized |-> FALSE ]

\* the body of quantize() after its guard
quantize_body(s) ==
    [s EXCEPT
        !.params.acc_weights =
            [i \in Hidden |-> [k \in NetInput |->
                FP(Rint(QA * s.params.acc_weights[i][k], Den))]],
        !.params.acc_biases =
            [i \in Hidden |-> FP(Rint(QA * s.params.acc_biases[i], Den))],
        !.params.output_weights =
            [j \in TrueAcc |-> FP(Rint(QB * s.params.output_weights[j], Den))],
        !.params.output_bias = FP(Rint(QA * QA * QB * s.params.output_bias, Den)),
        !.QA = QA,
        !.QB = QB,
        !.quantized = TRUE]

\* quantize() testing the flag only after it has scaled the parameters
quantize_late_check(s) ==
    [self |-> quantize_body(s), err |-> IF s.quantized THEN "ValueError" ELSE ""]

\* quantize() without its guard
quantize_unguarded(s) == [self |-> quantize_body(s), err |-> ""]

\* NNUE.quantize: [self, err]; raises ValueError when already quantized
quantize(s) ==
    IF s.quantized
    THEN [self |-> s, err |-> "ValueError"]
    ELSE [self |-> quantize_body(s), err |-> ""]

\* newly_switched_on testing only that the feature is on now
newly_switched_on_now(s) ==
    {i \in NetInput : s.values.input[i] = FP(1)}

newly_switched_on(s) ==
    {i \in NetInput : s.values.prev_input[i] = FP(0) /\ s.values.input[i] = FP(1)}

\* newly_switched_off testing only that the feature changed
newly_switched_off_changed(s) ==
    {i \in NetInput : s.values.prev_input[i] # s.values.input[i]}

newly_switched_off(s) ==
    {i \in NetInput : s.values.prev_input[i] = FP(1) /\ s.values.input[i] = FP(0)}

\* update_acc_index_add with the operands of its last statement exchanged:
\* acc_weights.T[i] += acc
update_acc_index_add_into_weights(s, k) ==
    LET looped == [i \in Hidden |-> s.values.acc[i] + s.params.acc_weights[i][k]]
        i_last == HIDDEN_SIZE - 1
    IN  [s EXCEPT !.values.acc = looped,
                  !.params.acc_weights =
                      [j \in Hidden |-> [s.params.acc_weights[j] EXCEPT
                          ![i_last] = s.params.acc_weights[j][i_last] + looped[j]]]]

\* NNUE.update_acc_index_add: the loop adds weight column k; the statement
\* after the loop reuses the loop variable i (= HIDDEN_SIZE - 1) and adds
\* acc_weights.T[i], which is weight column HIDDEN_SIZE - 1, once more
update_acc_index_add(s, k) ==
    LET looped == [i \in Hidden |-> s.values.acc[i] + s.params.acc_weights[i][k]]
        i_last == HIDDEN_SIZE - 1
    IN  [s EXCEPT !.values.acc =
            [j \in Hidden |-> looped[j] + s.params.acc_weights[j][i_last]]]

update_acc_index_substract(s, k) ==
    [s EXCEPT !.values.acc =
        [i \in Hidden |-> s.values.acc[i] - s.params.acc_weights[i][k]]]

\* the least index of the list S: python iterates the lists in increasing order
first(S) == CHOOSE j \in S : \A l \in S : j <= l

\* for i in self.newly_switched_on(): self.update_acc_index_add(i)
RECURSIVE add_loop(_, _)
add_loop(S, s) ==
    IF S = {} THEN s
    ELSE add_loop(S \ {first(S)}, update_acc_index_add(s, first(S)))

\* for i in self.newly_switched_off(): self.update_acc_index_substract(i)
RECURSIVE substract_loop(_, _)
substract_loop(S, s) ==
    IF S = {} THEN s
    ELSE substract_loop(S \ {first(S)}, update_acc_index_substract(s, first(S)))

\* NNUE.update_acc: each index list is computed when its loop starts, from the
\* inputs, which the updates do not change
update_acc(s) ==
    LET added == add_loop(newly_switched_on(s), s)
    IN  substract_loop(newly_switched_off(added), added)

get_true_acc(s) ==
    [j \in TrueAcc |-> IF j < HIDDEN_SIZE THEN s.values.acc[j]
                                          ELSE -s.values.acc[j - HIDDEN_SIZE]]

\* np.clip(x, lo, hi)
clip(x, lo, hi) == IF x < lo THEN lo ELSE IF x > hi THEN hi ELSE x

\* the activation clipping at the module's QA instead of self.QA
activated_acc_values_module_QA(s) ==
    LET t == get_true_acc(s)
    IN  [j \in TrueAcc |-> clip(t[j], FP(0), FP(QA)) * clip(t[j], FP(0), FP(QA))]

\* np.square(np.clip(true_acc, 0, self.QA)); an entry holds a real times Den^2
activated_acc_values(s) ==
    LET t == get_true_acc(s)
    IN  [j \in TrueAcc |-> clip(t[j], FP(0), FP(s.QA)) * clip(t[j], FP(0), FP(s.QA))]

\* NNUE.get_evaluation: activated . output_weights + output_bias, as a fraction
get_evaluation(s) ==
    LET a == activated_acc_values(s)
        dot == SumOver(TrueAcc, [j \in TrueAcc |-> a[j] * s.params.output_weights[j]])
    IN  Frac(dot + s.params.output_bias * Den * Den, Den * Den * Den)

\* F.linear(board, acc_weights, acc_biases): the full recomputation
linear(board, weights, biases) ==
    [i \in Hidden |->
        SumOver(NetInput, [k \in NetInput |-> (weights[i][k] * board[k]) \div Den])
        + biases[i]]

\* first_forward adding the full product to the accumulator it finds:
\* self.values['acc'] += F.linear(...)
first_forward_accumulating(s, board) ==
    LET s1 == [s EXCEPT !.values.input = board]
        lin == linear(board, s1.params.acc_weights, s1.params.acc_biases)
        s2 == [s1 EXCEPT !.values.acc = [i \in Hidden |-> s.values.acc[i] + lin[i]]]
        eval == get_evaluation(s2)
    IN  [self |-> s2, ret |-> FracMul(FracMul(FracDiv(eval, s2.QA), s2.QA), s2.QB)]

\* NNUE.first_forward: [self, ret];  eval / QA * QA * QB, left to right
first_forward(s, board) ==
    LET s1 == [s EXCEPT !.values.input = board]
        s2 == [s1 EXCEPT !.values.acc =
                   linear(board, s1.params.acc_weights, s1.params.acc_biases)]
        eval == get_evaluation(s2)
    IN  [self |-> s2, ret |-> FracMul(FracMul(FracDiv(eval, s2.QA), s2.QA), s2.QB)]

\* forward with its first two assignments exchanged: input is overwritten
\* before it is saved
forward_input_first(s, board) ==
    LET s1 == [s EXCEPT !.values.input = board]
        s2 == [s1 EXCEPT !.values.prev_input = s1.values.input]
        s3 == update_acc(s2)
        eval == get_evaluation(s3)
    IN  [self |-> s3, ret |-> FracMul(FracDiv(eval, s3.QA), s3.QB)]

\* NNUE.forward: [self, ret];  eval / QA * QB, left to right
forward(s, board) ==
    LET s1 == [s EXCEPT !.values.prev_input = s.values.input]
        s2 == [s1 EXCEPT !.values.input = board]
        s3 == update_acc(s2)
        eval == get_evaluation(s3)
    IN  [self |-> s3, ret |-> FracMul(FracDiv(eval, s3.QA), s3.QB)]

\* the feature vectors a caller passes: 0/1 vectors
Boards == [NetInput -> {FP(0), FP(1)}]

(***************************************************************************)
(* The encoder: piece_index and fen_to_onehot                              *)
(***************************************************************************)
\* python-chess: chess.WHITE is True (1), chess.BLACK is False (0)
WHITE == 1
BLACK == 0
Squares == 0 .. 63
PieceTypes == 1 .. 6
Colors == {BLACK, WHITE}

\* a FEN as its first four fields (board, turn, castling, en passant), each a
\* tuple of characters; the move counters are not read by the encoder
TEST_FENS ==
    <<
       <<<<"r", "n", "b", "q", "k", "b", "n", "r", "/", "p", "p", "p", "p", "p", "p", "p", "p", "/", "8", "/", "8", "/", "8", "/", "8", "/", "P", "P", "P", "P", "P", "P", "P", "P", "/", "R", "N", "B", "Q", "K", "B", "N", "R">>,
         <<"w">>, <<"K", "Q", "k", "q">>, <<"-">>>>,
       <<<<"r", "1", "b", "q", "k", "b", "1", "r", "/", "p", "p", "p", "p", "1", "p", "p", "p", "/", "2", "n", "2", "n", "2", "/", "4", "p", "3", "/", "2", "B", "1", "P", "3", "/", "5", "N", "2", "/", "P", "P", "P", "P", "1", "P", "P", "P", "/", "R", "N", "B", "Q", "K", "2", "R">>,
         <<"w">>, <<"K", "Q", "k", "q">>, <<"-">>>>,
       <<<<"r", "n", "b", "q", "k", "b", "1", "r", "/", "p", "p", "p", "2", "p", "p", "p", "/", "4", "p", "n", "2", "/", "3", "p", "4", "/", "2", "P", "P", "4", "/", "2", "N", "2", "N", "2", "/", "P", "P", "2", "P", "P", "P", "P", "/", "R", "1", "B", "Q", "K", "B", "1", "R">>,
         <<"w">>, <<"K", "Q", "k", "q">>, <<"d", "6">>>>,
       <<<<"8", "/", "8", "/", "8", "/", "4", "k", "3", "/", "8", "/", "8", "/", "4", "K", "3", "/", "8">>,
         <<"w">>, <<"-">>, <<"-">>>>,
       <<<<"8", "/", "8", "/", "4", "k", "3", "/", "8", "/", "8", "/", "4", "K", "3", "/", "8", "/", "7", "R">>,
         <<"w">>, <<"-">>, <<"-">>>>,
       <<<<"8", "/", "8", "/", "8", "/", "3", "k", "4", "/", "3", "P", "4", "/", "3", "K", "4", "/", "8", "/", "8">>,
         <<"w">>, <<"-">>, <<"-">>>>,
       <<<<"r", "1", "b", "q", "k", "b", "n", "r", "/", "p", "p", "p", "p", "1", "p", "p", "p", "/", "2", "n", "5", "/", "4", "p", "3", "/", "2", "B", "1", "P", "3", "/", "5", "Q", "2", "/", "P", "P", "P", "P", "1", "P", "P", "P", "/", "R", "N", "B", "1", "K", "1", "N", "R">>,
         <<"w">>, <<"K", "Q", "k", "q">>, <<"-">>>>,
       <<<<"r", "n", "b", "q", "k", "b", "1", "r", "/", "p", "p", "1", "p", "1", "p", "p", "p", "/", "2", "p", "2", "n", "2", "/", "4", "p", "3", "/", "2", "B", "1", "P", "3", "/", "5", "N", "2", "/", "P", "P", "P", "P", "1", "P", "P", "P", "/", "R", "N", "B", "Q", "K", "2", "R">>,
         <<"w">>, <<"K", "Q", "k", "q">>, <<"e", "6">>>>
    >>

\* chess.PIECE_SYMBOLS: the piece type of a piece letter (0 for no piece letter)
piece_type_of(c) ==
    CASE c \in {"p", "P"} -> 1
      [] c \in {"n", "N"} -> 2
      [] c \in {"b", "B"} -> 3
      [] c \in {"r", "R"} -> 4
      [] c \in {"q", "Q"} -> 5
      [] c \in {"k", "K"} -> 6
      [] OTHER -> 0

\* an upper-case letter is a white piece
color_of(c) == IF c \in {"P", "N", "B", "R", "Q", "K"} THEN WHITE ELSE BLACK

digit_of(c) ==
    CASE c = "1" -> 1 [] c = "2" -> 2 [] c = "3" -> 3 [] c = "4" -> 4
      [] c = "5" -> 5 [] c = "6" -> 6 [] c = "7" -> 7 [] c = "8" -> 8
      [] OTHER -> 0

\* chess.SQUARES_180: the board field lists rank 8 first, files a to h
square_180(i) == (7 - (i \div 8)) * 8 + (i % 8)

\* Board.set_fen, board field: the piece map (square -> piece) of the characters
\* chars[n..], the next square being number i of the rank-8-first order
RECURSIVE set_board_fen(_, _, _, _)
set_board_fen(chars, n, i, map) ==
    IF n > Len(chars) THEN map
    ELSE LET c == chars[n]
         IN  IF digit_of(c) > 0 THEN set_board_fen(chars, n + 1, i + digit_of(c), map)
             ELSE IF piece_type_of(c) > 0
                  THEN set_board_fen(chars, n + 1, i + 1,
                           map @@ (square_180(i) :>
                               [piece_type |-> piece_type_of(c), color |-> color_of(c)]))
                  ELSE set_board_fen(chars, n + 1, i, map)

\* the square of a square name such as <<"d", "6">>
file_of(c) ==
    CASE c = "a" -> 0 [] c = "b" -> 1 [] c = "c" -> 2 [] c = "d" -> 3
      [] c = "e" -> 4 [] c = "f" -> 5 [] c = "g" -> 6 [] c = "h" -> 7

parse_square(name) == (digit_of(name[2]) - 1) * 8 + file_of(name[1])

Has(chars, c) == \E n \in 1 .. Len(chars) : chars[n] = c

At(map, sq, pt, color) ==
    sq \in DOMAIN map /\ map[sq] = [piece_type |-> pt, color |-> color]

\* chess.Board() after set_fen(fen), as the encoder reads it: piece_map(), the
\* four has_*_castling_rights (a right counts only with king and rook on their
\* home squares), ep_square (the empty set for None) and turn
Board(fen) ==
    LET map == set_board_fen(fen[1], 1, 0, <<>>)
    IN  [ piece_map |-> map,
          castling |->
            [ wk |-> Has(fen[3], "K") /\ At(map, 4, 6, WHITE) /\ At(map, 7, 4, WHITE),
              wq |-> Has(fen[3], "Q") /\ At(map, 4, 6, WHITE) /\ At(map, 0, 4, WHITE),
              bk |-> Has(fen[3], "k") /\ At(map, 60, 6, BLACK) /\ At(map, 63, 4, BLACK),
              bq |-> Has(fen[3], "q") /\ At(map, 60, 6, BLACK) /\ At(map, 56, 4, BLACK) ],
          ep_square |-> IF fen[4] = <<"-">> THEN {} ELSE {parse_square(fen[4])},
          turn |-> IF fen[2] = <<"w">> THEN WHITE ELSE BLACK ]

\* piece_index with white numbered 0 and black 1
piece_index_white_first(piece_type, color, square) ==
    64 * (piece_type - 1 + (6 * (1 - color))) + square

\* piece_index without the - 1 on the 1-based piece type
piece_index_one_based(piece_type, color, square) ==
    64 * (piece_type + (6 * color)) + square

piece_index(piece_type, color, square) ==
    64 * (piece_type - 1 + (6 * color)) + square

\* board[i] = v on a numpy array of length INPUT_SIZE: a negative index counts
\* from the end, an index out of range raises IndexError
setitem(b, i, v) ==
    IF b.err # "" THEN b
    ELSE IF i \in 0 .. (INPUT_SIZE - 1) THEN [b EXCEPT !.board[i] = v]
    ELSE IF i \in (-INPUT_SIZE) .. (-1) THEN [b EXCEPT !.board[i + INPUT_SIZE] = v]
    ELSE [b EXCEPT !.err = "IndexError"]

\* for square, piece in b.piece_map().items(): the squares S still to write
RECURSIVE position_loop(_, _, _)
position_loop(S, map, b) ==
    IF S = {} THEN b
    ELSE LET sq == CHOOSE x \in S : \A y \in S : y <= x
         IN  position_loop(S \ {sq}, map,
                 setitem(b, piece_index(map[sq].piece_type, map[sq].color, sq), 1))

bit(x) == IF x THEN 1 ELSE 0

\* en_passant_index without the + 8 of the second rank
en_passant_index_one_block(en_passant) ==
    772 + (IF 16 <= en_passant /\ en_passant <= 23
           THEN en_passant - 16 ELSE en_passant - 40)

\* the index of the en-passant bit
en_passant_index(en_passant) ==
    772 + (IF 16 <= en_passant /\ en_passant <= 23
           THEN en_passant - 16 ELSE en_passant - 40 + 8)

\* fen_to_onehot, from the board the FEN was parsed to: [board, err]
fen_to_onehot(b) ==
    LET zeros == [board |-> [i \in 0 .. (INPUT_SIZE - 1) |-> 0], err |-> ""]
        b1 == position_loop(DOMAIN b.piece_map, b.piece_map, zeros)
        b2 == setitem(b1, 768, bit(b.castling.wk))
        b3 == setitem(b2, 769, bit(b.castling.wq))
        b4 == setitem(b3, 770, bit(b.castling.bk))
        b5 == setitem(b4, 771, bit(b.castling.bq))
        b6 == IF b.ep_square = {} THEN b5
              ELSE setitem(b5, en_passant_index(CHOOSE x \in b.ep_square : TRUE), 1)
    IN  setitem(b6, 788, b.turn)

(***************************************************************************)
(* The positions the encoder is run on                                     *)
(***************************************************************************)
Pieces == [piece_type : PieceTypes, color : Colors]

\* the squares on which arbitrary piece placements are enumerated
SampleSquares == {0, 27, 63}

\* the squares the encoder takes an en-passant square to be on: rank 3 and
\* rank 6
EpSquares == (16 .. 23) \cup (40 .. 47)

NoCastling == [wk |-> FALSE, wq |-> FALSE, bk |-> FALSE, bq |-> FALSE]

\* kings and rooks on their home squares: every castling right can be held.
\* set_fen takes any square name as the en-passant field, so ep_square ranges
\* over all 64 squares
KingsAndRooks ==
    (0 :> [piece_type |-> 4, color |-> WHITE]) @@ (4 :> [piece_type |-> 6, color |-> WHITE])
    @@ (7 :> [piece_type |-> 4, color |-> WHITE]) @@ (56 :> [piece_type |-> 4, color |-> BLACK])
    @@ (60 :> [piece_type |-> 6, color |-> BLACK]) @@ (63 :> [piece_type |-> 4, color |-> BLACK])

Positions ==
    {Board(TEST_FENS[n]) : n \in 1 .. Len(TEST_FENS)}
    \cup {[piece_map |-> m, castling |-> NoCastling, ep_square |-> {}, turn |-> WHITE] :
            m \in UNION {[S -> Pieces] : S \in SUBSET SampleSquares}}
    \cup {[piece_map |-> (sq :> p), castling |-> NoCastling, ep_square |-> {}, turn |-> BLACK] :
            sq \in Squares, p \in Pieces}
    \cup {[piece_map |-> KingsAndRooks, castling |-> c, ep_square |-> e, turn |-> t] :
            c \in [{"wk", "wq", "bk", "bq"} -> BOOLEAN],
            e \in {{}} \cup {{x} : x \in Squares},
            t \in Colors}

NotEncoded == [board |-> <<>>, err |-> "not encoded"]

\* the position of a run that only exercises the network
NoPosition == [piece_map |-> <<>>, castling |-> NoCastling, ep_square |-> {}, turn |-> WHITE]

(***************************************************************************)
(* The calls on one NNUE object                                            *)
(***************************************************************************)
\* a call in the history: the method, its argument and the accumulator it left
Call(op, board, s) == [op |-> op, board |-> board, acc |-> s.values.acc]

NoBoard == [k \in NetInput |-> FP(0)]

Init ==
    /\ \E seed \in 0 .. MaxSeed : self = NNUE_init(seed)
    /\ ret = [op |-> "init", val |-> NoValue, err |-> ""]
    /\ hist = <<>>
    /\ stack = <<>>
    /\ position = NoPosition
    /\ onehot = NotEncoded

DoQuantize ==
    /\ Len(hist) < MaxCalls
    /\ LET r == quantize(self)
       IN  /\ self' = r.self
           /\ ret' = [op |-> "quantize", val |-> NoValue, err |-> r.err]
           /\ hist' = Append(hist, Call("quantize", NoBoard, r.self))
    /\ UNCHANGED <<stack, position, onehot>>

DoFirstForward ==
    /\ Len(hist) < MaxCalls
    /\ \E board \in Boards :
          LET r == first_forward(self, board)
          IN  /\ self' = r.self
              /\ ret' = [op |-> "first_forward", val |-> r.ret, err |-> ""]
              /\ hist' = Append(hist, Call("first_forward", board, r.self))
    /\ UNCHANGED <<stack, position, onehot>>

DoForward ==
    /\ Len(hist) < MaxCalls
    /\ \E board \in Boards :
          LET r == forward(self, board)
          IN  /\ self' = r.self
              /\ ret' = [op |-> "forward", val |-> r.ret, err |-> ""]
              /\ hist' = Append(hist, Call("forward", board, r.self))
    /\ UNCHANGED <<stack, position, onehot>>

Next == DoQuantize \/ DoFirstForward \/ DoForward

Spec == Init /\ [][Next]_vars

(***************************************************************************)
(* Branch and backtrack.  nnue.py has no snapshot or pop operation: values  *)
(* keeps one prev_input and no earlier accumulator.  The stack below is the *)
(* one the design prescribes for the store: a pair (accumulator, feature    *)
(* vector) is pushed before each advance and popped on backtrack; the       *)
(* advance itself is NNUE.forward.  hist is the line from the root to the   *)
(* current position.                                                        *)
(***************************************************************************)
Snapshot(s) == [acc |-> s.values.acc, input |-> s.values.input]

DoAdvance ==
    /\ Len(hist) < MaxCalls
    /\ \E board \in Boards :
          LET r == forward(self, board)
          IN  /\ self' = r.self
              /\ ret' = [op |-> "forward", val |-> r.ret, err |-> ""]
              /\ hist' = Append(hist, Call("forward", board, r.self))
    /\ stack' = Append(stack, Snapshot(self))
    /\ UNCHANGED <<position, onehot>>

DoBacktrack ==
    /\ stack # <<>>
    /\ self' = [self EXCEPT !.values.acc = stack[Len(stack)].acc,
                            !.values.input = stack[Len(stack)].input]
    /\ stack' = SubSeq(stack, 1, Len(stack) - 1)
    /\ hist' = SubSeq(hist, 1, Len(hist) - 1)
    /\ ret' = [op |-> "backtrack", val |-> NoValue, err |-> ""]
    /\ UNCHANGED <<position, onehot>>

\* a line of search starts with first_forward at its root
DoRoot ==
    /\ hist = <<>>
    /\ DoFirstForward

NextBacktrack == DoRoot \/ DoAdvance \/ DoBacktrack

SpecBacktrack == Init /\ [][NextBacktrack]_vars

(***************************************************************************)
(* The encoder run on one position                                         *)
(***************************************************************************)
InitEncoder ==
    /\ self = NNUE_init(0)
    /\ ret = [op |-> "init", val |-> NoValue, err |-> ""]
    /\ hist = <<>>
    /\ stack = <<>>
    /\ position \in Positions
    /\ onehot = NotEncoded

Encode ==
    /\ onehot = NotEncoded
    /\ onehot' = fen_to_onehot(position)
    /\ UNCHANGED <<self, ret, hist, stack, position>>

NextEncoder == Encode

SpecEncoder == InitEncoder /\ [][NextEncoder]_vars

(***************************************************************************)
(* Properties of the NNUE object, under Spec                               *)
(***************************************************************************)
\* acc_weights . input + acc_biases for the current parameters and input
FullAcc(s) == linear(s.values.input, s.params.acc_weights, s.params.acc_biases)

Params(s) == <<s.params, s.QA, s.QB, s.quantized>>

LastCall == hist[Len(hist)]

\* the step is a call of one of the methods ops
IsCall(ops) == hist' # hist /\ ret'.op \in ops

\* a first_forward has been called and only forward calls followed it
SinceFirstForward ==
    \E j \in 1 .. Len(hist) :
        /\ hist[j].op = "first_forward"
        /\ \A l \in (j + 1) .. Len(hist) : hist[l].op = "forward"

\* C1: after first_forward(x0) and any number of forward(x1..xn), with the
\* parameters untouched in between, the stored accumulator equals the full
\* recomputation acc_biases + acc_weights . input for the latest input.
C1_AccIsFullRecomputation ==
    SinceFirstForward => self.values.acc = FullAcc(self)

\* C2: on a quantized network, the score forward(x2) returns right after
\* first_forward(x1), x2 # x1, equals the score first_forward(x2) returns on a
\* network with the same parameters.
C2_IncrementalScoreIsFullScore ==
    ( /\ Len(hist) >= 2
      /\ self.quantized
      /\ hist[Len(hist)].op = "forward"
      /\ hist[Len(hist) - 1].op = "first_forward"
      /\ hist[Len(hist)].board # hist[Len(hist) - 1].board )
    => ret.val = first_forward(self, self.values.input).ret

\* C4: quantize() on a quantized network raises, and the failed call leaves the
\* parameters, QA, QB and the quantized flag as they were.
C4_SecondQuantizeFails ==
    [][(self.quantized /\ IsCall({"quantize"}))
        => (ret'.err = "ValueError" /\ Params(self') = Params(self))]_vars

\* C4 witness: a quantize() call has just failed on a quantized network.
C4_Witness ==
    /\ ret.op = "quantize" /\ ret.err = "ValueError"
    /\ Len(hist) >= 2 /\ hist[1].op = "quantize"
    /\ self.quantized

\* C7: the score first_forward and forward return is the raw output
\* get_evaluation() divided by QA * QA * QB.
C7_ScoreIsRawOverScales ==
    ret.op \in {"first_forward", "forward"}
    => ret.val = FracDiv(get_evaluation(self), self.QA * self.QA * self.QB)

\* C8: the index sets newly_switched_on() and newly_switched_off() are disjoint
\* for whatever prev_input and input the object holds.
C8_SwitchedSetsDisjoint ==
    newly_switched_on(self) \cap newly_switched_off(self) = {}

\* C8 witness: a forward call that switched a feature on and another one off.
C8_Witness ==
    /\ ret.op = "forward"
    /\ newly_switched_on(self) # {}
    /\ newly_switched_off(self) # {}

\* C9: once the quantized flag is true it stays true, and the parameters and
\* the scales QA, QB never change again.
C9_QuantizedIsFinal ==
    [][self.quantized => (self'.quantized /\ Params(self') = Params(self))]_vars

\* C9 witness: a quantized network on which quantize and an evaluation were
\* called after the quantization.
C9_Witness ==
    /\ self.quantized
    /\ Len(hist) >= 3
    /\ hist[1].op = "quantize"
    /\ \E j \in 2 .. Len(hist) : hist[j].op = "quantize"
    /\ \E j \in 2 .. Len(hist) : hist[j].op \in {"first_forward", "forward"}

\* C10: first_forward and forward leave acc_weights, acc_biases,
\* output_weights, output_bias, QA, QB and the quantized flag unchanged.
C10_EvaluationKeepsParams ==
    [][IsCall({"first_forward", "forward"}) => Params(self') = Params(self)]_vars

\* C10 witness: a forward call whose update added and subtracted weight columns
\* returned on a network that was quantized before.
C10_Witness ==
    /\ ret.op = "forward"
    /\ self.quantized
    /\ newly_switched_on(self) # {}
    /\ newly_switched_off(self) # {}

\* the sum of the weight columns S in hidden row i
ColumnSum(s, i, S) == SumOver(S, [k \in S |-> s.params.acc_weights[i][k]])

\* C12: one forward call changes the accumulator by exactly the diff: in every
\* hidden row, the columns of the switched-on features are added and those of
\* the switched-off features subtracted, and nothing else.
C12_ForwardAddsExactlyTheDiff ==
    [][IsCall({"forward"}) =>
        \A i \in Hidden :
            self'.values.acc[i] - self.values.acc[i]
            = ColumnSum(self', i, newly_switched_on(self'))
              - ColumnSum(self', i, newly_switched_off(self'))]_vars

\* the features of a vector that are on
On(v) == {k \in NetInput : v[k] = FP(1)}

\* C13: after first_forward(x), from whatever state, the current input is x
\* and acc[i] = acc_biases[i] + the sum of acc_weights[i][k] over the k with
\* x[k] = 1, whatever the accumulator, input and prev_input were before.
C13_FirstForwardReestablishes ==
    ret.op = "first_forward" =>
        /\ self.values.input = LastCall.board
        /\ \A i \in Hidden :
              self.values.acc[i]
              = self.params.acc_biases[i] + ColumnSum(self, i, On(LastCall.board))

\* C13 witness: first_forward(x), x with a feature on, returned on a store
\* that had been advanced and whose accumulator was out of sync with its input.
C13_Witness ==
    /\ ret.op = "first_forward"
    /\ Len(hist) >= 3
    /\ hist[Len(hist) - 1].op = "forward"
    /\ hist[Len(hist) - 1].acc
         # linear(hist[Len(hist) - 1].board, self.params.acc_weights, self.params.acc_biases)
    /\ On(LastCall.board) # {}
    /\ self.values.acc # hist[Len(hist) - 1].acc

\* C14: forward(new) in a state whose input is old leaves prev_input = old
\* and input = new; the sets the update uses are taken against old: switched
\* on = {k : old[k] = 0 /\ new[k] = 1}, switched off = {k : old[k] = 1 /\
\* new[k] = 0}; when old is a 0/1 vector their union is where old and new
\* differ.
C14_ForwardDiffsAgainstOldInput ==
    [][IsCall({"forward"}) =>
        LET old == self.values.input
            new == hist'[Len(hist')].board
        IN  /\ self'.values.prev_input = old
            /\ self'.values.input = new
            /\ newly_switched_on(self') = {k \in NetInput : old[k] = FP(0) /\ new[k] = FP(1)}
            /\ newly_switched_off(self') = {k \in NetInput : old[k] = FP(1) /\ new[k] = FP(0)}
            /\ old \in Boards =>
                  newly_switched_on(self') \cup newly_switched_off(self')
                  = {k \in NetInput : old[k] # new[k]}]_vars

\* C14 witness: a forward call has returned whose old input was the 0/1 vector
\* of the call before, with one feature switched on and another switched off,
\* and the prev_input of before that call was a different vector.
C14_Witness ==
    /\ ret.op = "forward"
    /\ Len(hist) >= 3
    /\ hist[Len(hist) - 1].op \in {"first_forward", "forward"}
    /\ hist[Len(hist) - 2].op \in {"first_forward", "forward"}
    /\ hist[Len(hist) - 2].board # hist[Len(hist) - 1].board
    /\ self.values.prev_input = hist[Len(hist) - 1].board
    /\ newly_switched_on(self) # {}
    /\ newly_switched_off(self) # {}

\* the clipping bound the specification gives: QA when quantized, else 1
UpperBound == IF self.quantized THEN FP(255) ELSE FP(1)

\* C16: in every reachable state self.QA = 255 and self.QB = 64 iff the
\* network is quantized, otherwise self.QA = self.QB = 1; every element of
\* [acc, -acc] is clipped into [0, 255] when quantized and into [0, 1] when
\* not, and every activated element is the square of the clipped one, within
\* [0, bound^2].
C16_ClipBoundTracksQuantized ==
    /\ self.quantized <=> self.QA = 255
    /\ self.quantized => self.QB = 64
    /\ ~self.quantized => (self.QA = 1 /\ self.QB = 1)
    /\ \A j \in TrueAcc :
          LET x == get_true_acc(self)[j]
              c == IF x < 0 THEN 0 ELSE IF x > UpperBound THEN UpperBound ELSE x
          IN  /\ c \in 0 .. UpperBound
              /\ activated_acc_values(self)[j] = c * c
              /\ activated_acc_values(self)[j] \in 0 .. (UpperBound * UpperBound)

\* C16 witness: an evaluation has returned on an unquantized network with an
\* accumulator entry above 1, clipped to 1, and its negation clipped to 0.
C16_Witness ==
    /\ ret.op \in {"first_forward", "forward"}
    /\ ~self.quantized
    /\ \E i \in Hidden :
          /\ self.values.acc[i] > FP(1)
          /\ activated_acc_values(self)[i] = FP(1) * FP(1)
          /\ activated_acc_values(self)[i + HIDDEN_SIZE] = 0

\* C16 second witness: the same on a quantized network, clipped to 255.
C16_WitnessQuantized ==
    /\ ret.op \in {"first_forward", "forward"}
    /\ self.quantized
    /\ \E i \in Hidden :
          /\ self.values.acc[i] > FP(255)
          /\ activated_acc_values(self)[i] = FP(255) * FP(255)

\* an evaluation is among the calls before call j
EvaluatedBefore(j) ==
    \E l \in 1 .. (j - 1) : hist[l].op \in {"first_forward", "forward"}

\* C17: quantize() never succeeds on a network on which first_forward or
\* forward has been called, and so, once first_forward has been called, the
\* stored accumulator is acc_weights . input + acc_biases for the current
\* parameters.
C17_QuantizeBeforeEvaluation ==
    /\ (ret.op = "quantize" /\ EvaluatedBefore(Len(hist))) => ret.err # ""
    /\ (\E j \in 1 .. Len(hist) : hist[j].op = "first_forward")
          => self.values.acc = FullAcc(self)

\* C18: from a store initialized by first_forward(x) with accumulator a,
\* forward(y) followed by forward(x) leaves the accumulator a again.
C18_RoundTripRestoresAcc ==
    \A j \in 1 .. (Len(hist) - 2) :
        ( /\ hist[j].op = "first_forward"
          /\ hist[j + 1].op = "forward"
          /\ hist[j + 2].op = "forward"
          /\ hist[j + 2].board = hist[j].board )
        => hist[j + 2].acc = hist[j].acc

\* the store has been initialized and holds a 0/1 input: an evaluation with
\* a 0/1 vector was the last call to set the input
Initialized ==
    /\ \E j \in 1 .. Len(hist) : hist[j].op = "first_forward"
    /\ self.values.input \in Boards

\* C19: forward(x) on an initialized store whose current input is the 0/1
\* vector x switches nothing on or off and leaves the accumulator unchanged;
\* repeated after a forward(x), it returns the same score again.
C19_NoOpForward ==
    [][(IsCall({"forward"}) /\ Initialized
            /\ hist'[Len(hist')].board = self.values.input)
        => /\ newly_switched_on(self') = {}
           /\ newly_switched_off(self') = {}
           /\ self'.values.acc = self.values.acc
           /\ ret.op = "forward" => ret'.val = ret.val]_vars

\* C19 witness: forward(x) has returned twice in a row after first_forward(x),
\* x with a feature on, with the accumulator first_forward left.
C19_Witness ==
    /\ Len(hist) = 3
    /\ hist[1].op = "first_forward"
    /\ hist[2].op = "forward"
    /\ hist[3].op = "forward"
    /\ hist[1].board = hist[2].board
    /\ hist[2].board = hist[3].board
    /\ On(hist[3].board) # {}
    /\ hist[3].acc = hist[1].acc
    /\ self.values.acc = hist[1].acc
    /\ ret.op = "forward" /\ ret.val # NoValue

(***************************************************************************)
(* Properties of branch and backtrack, under SpecBacktrack                 *)
(***************************************************************************)
\* C3: after initializing on p1, advancing to p2, advancing to p3 and popping
\* back to the snapshot of p2 (at any depth of nesting), the accumulator and
\* the current feature vector equal those of initializing directly on p2.
C3_BacktrackRestoresFull ==
    (ret.op = "backtrack" /\ Len(hist) >= 2 /\ hist[1].op = "first_forward")
    => /\ self.values.input = LastCall.board
       /\ self.values.acc = first_forward(self, LastCall.board).self.values.acc

(***************************************************************************)
(* Properties of the encoder, under SpecEncoder                            *)
(***************************************************************************)
Encoded == onehot # NotEncoded

\* the piece bits that are set
PieceBits == {i \in 0 .. 767 : onehot.board[i] = 1}

StartingPosition == Board(TEST_FENS[1])

\* the 32 pieces of the starting position as <<piece type, colour, square>>,
\* with python-chess's numbers: pawn 1, knight 2, bishop 3, rook 4, queen 5,
\* king 6; white 1, black 0; a1 = 0 .. h8 = 63
BackRank == <<4, 2, 3, 5, 6, 3, 2, 4>>

StartingPieces ==
    {<<BackRank[f + 1], 1, f>> : f \in 0 .. 7}
    \cup {<<1, 1, 8 + f>> : f \in 0 .. 7}
    \cup {<<1, 0, 48 + f>> : f \in 0 .. 7}
    \cup {<<BackRank[f + 1], 0, 56 + f>> : f \in 0 .. 7}

\* C5 (as amended): the starting position sets exactly 32 bits among 0..767,
\* the bits 64 * ((pieceType - 1) + 6 * colour) + square of its 32 pieces with
\* white numbered 1 and the rook numbered 4; white's rook on a1 sets index
\* 64 * (3 + 6) + 0 = 576, and index 320 stays 0.
C5_StartingPositionBits ==
    (Encoded /\ position = StartingPosition)
    => /\ onehot.err = ""
       /\ Cardinality(PieceBits) = 32
       /\ PieceBits = {64 * ((p[1] - 1) + 6 * p[2]) + p[3] : p \in StartingPieces}
       /\ onehot.board[576] = 1
       /\ onehot.board[320] = 0

\* C5 witness: the starting position has been encoded.
C5_Witness ==
    Encoded /\ position = StartingPosition /\ Cardinality(PieceBits) = 32

\* C5 (as stated): the starting position sets exactly 32 bits among 0..767 and
\* white's rook on a1 sets index 64 * (5 + 0) + 0 = 320.
C5_Original ==
    (Encoded /\ position = StartingPosition)
    => (Cardinality(PieceBits) = 32 /\ onehot.board[64 * (5 + 0) + 0] = 1)

\* the position has no en-passant square or one on rank 3 or rank 6
ValidEp == position.ep_square \subseteq EpSquares

\* the set bits among 0..767 are as many as the occupied squares, each
\* occupied square setting its own bit; piece_index is injective over (piece
\* type, colour, square) and lands in [0, 768)
OccupancyCount ==
    /\ Cardinality(PieceBits) = Cardinality(DOMAIN position.piece_map)
    /\ \A sq \in DOMAIN position.piece_map :
          LET i == piece_index(position.piece_map[sq].piece_type,
                               position.piece_map[sq].color, sq)
          IN  i \in 0 .. 767 /\ onehot.board[i] = 1
    /\ LET all == {piece_index(p.piece_type, p.color, sq) : p \in Pieces, sq \in Squares}
       IN  all \subseteq 0 .. 767 /\ Cardinality(all) = 12 * 64

\* C6 (as amended): for every position whose en-passant square, if it has
\* one, is on rank 3 or rank 6, the encoder returns a vector whose set bits
\* among indices 0..767 are as many as the occupied squares, one per occupied
\* square; piece_index is injective and lands in [0, 768).
C6_OccupancyCount ==
    (Encoded /\ ValidEp) => (onehot.err = "" /\ OccupancyCount)

\* C6 (as stated): for every position, the vector the encoder returns has as
\* many set bits among indices 0..767 as the position has occupied squares.
C6_Original ==
    (Encoded /\ onehot.err = "") => OccupancyCount

\* C6 witness: an encoded position with three pieces, a white king among them,
\* and no en-passant square off rank 3 and rank 6.
C6_Witness ==
    /\ Encoded
    /\ ValidEp
    /\ Cardinality(DOMAIN position.piece_map) = 3
    /\ Cardinality(PieceBits) = 3
    /\ \E sq \in DOMAIN position.piece_map :
          position.piece_map[sq] = [piece_type |-> 6, color |-> WHITE]

\* the en-passant bits that are set
EpBits == {i \in 772 .. 787 : onehot.board[i] = 1}

\* the slot of an en-passant square of rank 3 (0..7) or rank 6 (8..15)
EpSlot(e) == IF e \in 16 .. 23 THEN e - 16 ELSE 8 + (e - 40)

\* the extended layout: no write raised; 768..771 are the castling rights
\* (white kingside, white queenside, black kingside, black queenside); at most
\* one of 772..787 is set, and one is set iff there is an en-passant square;
\* a square of rank 3 or rank 6 sets the bit of its slot, distinct squares
\* having distinct indices within [772, 787]; 788 is the side to move; the
\* piece bits are those of the pieces alone
ExtendedLayout ==
    /\ onehot.err = ""
    /\ onehot.board[768] = bit(position.castling.wk)
    /\ onehot.board[769] = bit(position.castling.wq)
    /\ onehot.board[770] = bit(position.castling.bk)
    /\ onehot.board[771] = bit(position.castling.bq)
    /\ Cardinality(EpBits) <= 1
    /\ EpBits # {} <=> position.ep_square # {}
    /\ \A e \in position.ep_square \cap EpSquares : EpBits = {772 + EpSlot(e)}
    /\ \A e1, e2 \in EpSquares :
          /\ en_passant_index(e1) \in 772 .. 787
          /\ e1 # e2 => en_passant_index(e1) # en_passant_index(e2)
    /\ onehot.board[788] = position.turn
    /\ PieceBits = {piece_index(position.piece_map[sq].piece_type,
                                position.piece_map[sq].color, sq) :
                      sq \in DOMAIN position.piece_map}

\* C15 (as amended): for every position whose en-passant square, if it has
\* one, is on rank 3 or rank 6, the encoding has the extended layout: castling
\* rights at 768..771, at most one en-passant bit in 772..787, set iff there is
\* an en-passant square and at the index of its slot, the side to move at 788,
\* and no write outside [0, 789) or onto a piece or castling bit.
C15_ExtendedLayout ==
    (Encoded /\ ValidEp) => ExtendedLayout

\* C15 witness: a position with black to move, an en-passant square on rank
\* 6, white's kingside right but not black's queenside right, encoded with the
\* bit of slot 8 + file set.
C15_Witness ==
    /\ Encoded
    /\ position.ep_square = {44}
    /\ position.turn = BLACK
    /\ position.castling.wk /\ ~position.castling.bq
    /\ EpBits = {784}
    /\ onehot.board[768] = 1 /\ onehot.board[771] = 0 /\ onehot.board[788] = 0

\* C15 (as stated): for every position the encoding has the extended layout,
\* and no write of the encoder falls outside [0, 789) or onto a piece or
\* castling bit.
C15_Original ==
    Encoded => ExtendedLayout

====
